---- MODULE Spec2Model ----
(***************************************************************************)
(* Model of AddonModForumHelperProvider                                    *)
(* (src/src/addon/mod/forum/providers/helper.ts): conversion of an offline *)
(* reply to the online post shape, the stored-attachment folders, the      *)
(* upload-or-store routing, the paginated discussion lookup, the change    *)
(* detection and the availability message.  The collaborators the helper   *)
(* calls (file store, uploader, user profile, discussion listing, offline  *)
(* folder naming, clock, date formatting, translation) are modelled as an  *)
(* environment that may answer each call in every way its contract allows. *)
(***************************************************************************)
EXTENDS Integers, Sequences, FiniteSets, TLC

VARIABLES
    folders,    \* the file store: folder key -> [exists, files]
    lastOp,     \* the last completed folder / routing call of the helper
    conv,       \* the conversion in progress (convertOfflineReplyToOnline)
    loc,        \* the discussion lookup in progress (getDiscussionById)
    chg,        \* the last hasPostDataChanged call
    avail       \* the last getAvailabilityMessage call

vars == <<folders, lastOp, conv, loc, chg, avail>>

(***************************************************************************)
(* Bounds of the model.                                                    *)
(***************************************************************************)
MaxLocal == 1       \* most local files in one stored attachment set
MaxRemote == 2      \* most remote (online) attachments of a draft
MaxPages == 3       \* most pages of a discussion listing

(***************************************************************************)
(* Values.                                                                 *)
(***************************************************************************)
ForumIds == {7}
PostIds == {1, 2}
UserIds == {1, 2}
CurrentUser == 1
NoUser == 0         \* the optional userId argument left undefined
\* The <<postId, userId>> arguments of the calls about a reply: a reply to
\* post 1 by the current user with the userId argument left out, a reply to
\* post 1 by user 2, and a reply to post 2 by user 1.
ReplyArgs == {<<1, NoUser>>, <<1, 2>>, <<2, 1>>}
Times == {5}
SiteIds == {"site1"}

\* AddonModForumProvider.COMPONENT, passed to the uploader (helper.ts:310, 330).
COMPONENT == "mmaModForum"

\* A file entry: one already on the server (remote) or one held on the device.
RemoteFile(n) == [origin |-> "remote", name |-> n]
LocalFile(n) == [origin |-> "local", name |-> n]
IsLocal(f) == f.origin = "local"

\* Lists are built in descending name order so that no order is the sorted one.
LocalList(n) == [i \in 1..n |-> LocalFile(n + 1 - i)]
RemoteList(n) == [i \in 1..n |-> RemoteFile(n + 1 - i)]

\* The file lists a caller hands to the store / upload operations: no file,
\* or one remote entry followed by n local files.
FileInputs ==
    {<<>>} \cup {<<RemoteFile(9)>> \o LocalList(n) : n \in 1..MaxLocal}

(***************************************************************************)
(* Offline folder naming (AddonModForumOfflineProvider, not under src/):   *)
(* a folder is identified by the fields of its key and nothing else; an    *)
(* absent userId stands for the current user of the site.                  *)
(***************************************************************************)
getNewDiscussionFolder(forumId, timecreated, siteId) ==
    [kind |-> "newdisc", forum |-> forumId, id |-> timecreated,
     site |-> siteId, user |-> NoUser]

getReplyFolder(forumId, postId, siteId, userId) ==
    [kind |-> "reply", forum |-> forumId, id |-> postId, site |-> siteId,
     user |-> IF userId = NoUser THEN CurrentUser ELSE userId]

NoKey == [kind |-> "none", forum |-> 0, id |-> 0, site |-> "", user |-> NoUser]

FolderKeys ==
    {getNewDiscussionFolder(f, t, s) : f \in ForumIds, t \in Times, s \in SiteIds}
    \cup
    {getReplyFolder(f, r[1], s, r[2]) : f \in ForumIds, r \in ReplyArgs, s \in SiteIds}

NoFolder == [exists |-> FALSE, files |-> <<>>]
Folder(files) == [exists |-> TRUE, files |-> files]
FolderValues == {NoFolder} \cup {Folder(LocalList(n)) : n \in 0..MaxLocal}

(***************************************************************************)
(* The file store and the uploader (CoreFileProvider and                   *)
(* CoreFileUploaderProvider, not under src/).  Each operator gives the     *)
(* outcome of one call for one answer of the environment.                  *)
(***************************************************************************)
\* removeDir(path): removes the folder, or fails because there is none, or
\* fails for another reason leaving the folder as it is.
RemoveDirAnswers(fs, key) ==
    IF fs[key].exists THEN {"ok", "OtherError"} ELSE {"NotFoundError", "OtherError"}

removeDir(fs, key, answer) ==
    [ok |-> answer = "ok",
     ret |-> IF answer = "ok" THEN "undefined" ELSE answer,
     fs |-> IF answer = "ok" THEN [fs EXCEPT ![key] = NoFolder] ELSE fs]

\* storeFilesToUpload(path, files): the folder then holds the local members
\* of files, in their order; a failure leaves the folder as it is.
StoreAnswers == {"ok", "StoreError"}

storeFilesToUpload(fs, key, files, answer) ==
    [ok |-> answer = "ok",
     ret |-> IF answer = "ok" THEN "stored" ELSE answer,
     fs |-> IF answer = "ok"
            THEN [fs EXCEPT ![key] = Folder(SelectSeq(files, IsLocal))]
            ELSE fs]

\* getStoredFiles(path): the files of the folder, in the folder's order; it
\* may fail, and a folder that does not exist may also list as empty.
ListAnswers == {"ok", "ListError"}

getStoredFiles(fs, key, answer) ==
    [ok |-> answer = "ok",
     ret |-> IF answer = "ok" THEN "files" ELSE answer,
     files |-> IF answer = "ok" THEN fs[key].files ELSE <<>>]

\* uploadOrReuploadFiles(files, component, componentId, siteId): resolves
\* with the draft item id or fails; the file store is not touched.
UploadAnswers == {"item42", "UploadError"}

uploadOrReuploadFiles(files, component, componentId, siteId, answer) ==
    [ok |-> answer # "UploadError", ret |-> answer]

(***************************************************************************)
(* The record kept of a completed call: the operation, its arguments, the  *)
(* collaborator call it made, how its promise settled, and what the call   *)
(* found and left in the file store.                                       *)
(***************************************************************************)
NoArgs == [forum |-> 0, id |-> 0, site |-> "", user |-> NoUser]
Args(forumId, id, siteId, userId) ==
    [forum |-> forumId, id |-> id, site |-> siteId, user |-> userId]

NoCall == [fn |-> "none", key |-> NoKey, files |-> <<>>, component |-> "",
           entity |-> 0, ret |-> ""]

Call(fn, key, files, component, entity, ret) ==
    [fn |-> fn, key |-> key, files |-> files, component |-> component,
     entity |-> entity, ret |-> ret]

\* offline: the offline argument (FALSE for an operation that has none).
\* prev: how the preceding call settled when it was the same operation with
\* the same arguments, "none" otherwise.  existed: whether the folder of the
\* call existed when it was made.  changed: whether the call changed the
\* file store.
Settled(op, args, files, offline, call, ok, value, fs) ==
    [op |-> op, args |-> args, files |-> files, offline |-> offline,
     call |-> call, outcome |-> IF ok THEN "resolved" ELSE "rejected",
     value |-> value,
     prev |-> IF lastOp.op = op /\ lastOp.args = args
              THEN lastOp.outcome ELSE "none",
     existed |-> call.key # NoKey /\ folders[call.key].exists,
     changed |-> fs # folders]

NoOp == [op |-> "none", args |-> NoArgs, files |-> <<>>, offline |-> FALSE,
         call |-> NoCall, outcome |-> "resolved", value |-> "",
         prev |-> "none", existed |-> FALSE, changed |-> FALSE]

(***************************************************************************)
(* deleteNewDiscussionStoredFiles / deleteReplyStoredFiles                 *)
(* (helper.ts:104-110, 121-127): removeDir on the folder of the key, every *)
(* failure of removeDir caught.                                            *)
(***************************************************************************)
\* The catch handler of helper.ts:106 and 123: any rejection of removeDir
\* becomes a promise resolved with undefined.
DeleteOutcome(r) ==
    [ok |-> TRUE, value |-> IF r.ok THEN r.ret ELSE "undefined"]

DeleteStoredFiles(op, args, key, answer) ==
    LET r == removeDir(folders, key, answer)
        o == DeleteOutcome(r)
    IN /\ folders' = r.fs
       /\ lastOp' = Settled(op, args, <<>>, FALSE,
                            Call("removeDir", key, <<>>, "", 0, r.ret),
                            o.ok, o.value, r.fs)

deleteNewDiscussionStoredFiles(forumId, timecreated, siteId, answer) ==
    /\ answer \in RemoveDirAnswers(folders,
                      getNewDiscussionFolder(forumId, timecreated, siteId))
    /\ DeleteStoredFiles("deleteNewDiscussionStoredFiles",
                         Args(forumId, timecreated, siteId, NoUser),
                         getNewDiscussionFolder(forumId, timecreated, siteId),
                         answer)
    /\ UNCHANGED <<conv, loc, chg, avail>>

deleteReplyStoredFiles(forumId, postId, siteId, userId, answer) ==
    /\ answer \in RemoveDirAnswers(folders,
                      getReplyFolder(forumId, postId, siteId, userId))
    /\ DeleteStoredFiles("deleteReplyStoredFiles",
                         Args(forumId, postId, siteId, userId),
                         getReplyFolder(forumId, postId, siteId, userId),
                         answer)
    /\ UNCHANGED <<conv, loc, chg, avail>>

(***************************************************************************)
(* getNewDiscussionStoredFiles / getReplyStoredFiles (helper.ts:191-195,   *)
(* 206-210): the stored files of the folder of the key.                    *)
(***************************************************************************)
GetStoredFiles(op, args, key, answer) ==
    LET r == getStoredFiles(folders, key, answer)
    IN /\ lastOp' = Settled(op, args, r.files, FALSE,
                            Call("getStoredFiles", key, <<>>, "", 0, r.ret),
                            r.ok, r.ret, folders)
       /\ UNCHANGED folders

getNewDiscussionStoredFiles(forumId, timecreated, siteId, answer) ==
    /\ GetStoredFiles("getNewDiscussionStoredFiles",
                      Args(forumId, timecreated, siteId, NoUser),
                      getNewDiscussionFolder(forumId, timecreated, siteId),
                      answer)
    /\ UNCHANGED <<conv, loc, chg, avail>>

getReplyStoredFiles(forumId, postId, siteId, userId, answer) ==
    /\ GetStoredFiles("getReplyStoredFiles",
                      Args(forumId, postId, siteId, userId),
                      getReplyFolder(forumId, postId, siteId, userId), answer)
    /\ UNCHANGED <<conv, loc, chg, avail>>

(***************************************************************************)
(* storeNewDiscussionFiles / storeReplyFiles (helper.ts:270-275, 288-293): *)
(* storeFilesToUpload on the folder of the key, result returned as is.     *)
(***************************************************************************)
StoreFiles(op, args, key, files, offline, answer) ==
    LET r == storeFilesToUpload(folders, key, files, answer)
    IN /\ folders' = r.fs
       /\ lastOp' = Settled(op, args, files, offline,
                            Call("storeFilesToUpload", key, files, "", 0, r.ret),
                            r.ok, r.ret, r.fs)

storeNewDiscussionFiles(forumId, timecreated, files, siteId, answer) ==
    /\ StoreFiles("storeNewDiscussionFiles",
                  Args(forumId, timecreated, siteId, NoUser),
                  getNewDiscussionFolder(forumId, timecreated, siteId),
                  files, FALSE, answer)
    /\ UNCHANGED <<conv, loc, chg, avail>>

storeReplyFiles(forumId, postId, files, siteId, userId, answer) ==
    /\ StoreFiles("storeReplyFiles",
                  Args(forumId, postId, siteId, userId),
                  getReplyFolder(forumId, postId, siteId, userId),
                  files, FALSE, answer)
    /\ UNCHANGED <<conv, loc, chg, avail>>

(***************************************************************************)
(* uploadOrStoreNewDiscussionFiles / uploadOrStoreReplyFiles               *)
(* (helper.ts:305-312, 325-332): store when offline, upload otherwise.     *)
(***************************************************************************)
\* The else branch of helper.ts:310 and 330.
UploadFiles(op, args, files, offline, forumId, siteId, answer) ==
    LET r == uploadOrReuploadFiles(files, COMPONENT, forumId, siteId, answer)
    IN /\ lastOp' = Settled(op, args, files, offline,
                            Call("uploadOrReuploadFiles", NoKey, files,
                                 COMPONENT, forumId, r.ret),
                            r.ok, r.ret, folders)
       /\ UNCHANGED folders

StoresOffline_Inverted(offline) == ~offline

\* The test of helper.ts:307 and 327.
StoresOffline(offline) == offline

uploadOrStoreNewDiscussionFiles(forumId, timecreated, files, offline, siteId, answer) ==
    /\ IF StoresOffline(offline)
       THEN /\ answer \in StoreAnswers
            /\ StoreFiles("uploadOrStoreNewDiscussionFiles",
                          Args(forumId, timecreated, siteId, NoUser),
                          getNewDiscussionFolder(forumId, timecreated, siteId),
                          files, offline, answer)
       ELSE /\ answer \in UploadAnswers
            /\ UploadFiles("uploadOrStoreNewDiscussionFiles",
                           Args(forumId, timecreated, siteId, NoUser),
                           files, offline, forumId, siteId, answer)
    /\ UNCHANGED <<conv, loc, chg, avail>>

uploadOrStoreReplyFiles(forumId, postId, files, offline, siteId, userId, answer) ==
    /\ IF StoresOffline(offline)
       THEN /\ answer \in StoreAnswers
            /\ StoreFiles("uploadOrStoreReplyFiles",
                          Args(forumId, postId, siteId, userId),
                          getReplyFolder(forumId, postId, siteId, userId),
                          files, offline, answer)
       ELSE /\ answer \in UploadAnswers
            /\ UploadFiles("uploadOrStoreReplyFiles",
                           Args(forumId, postId, siteId, userId),
                           files, offline, forumId, siteId, answer)
    /\ UNCHANGED <<conv, loc, chg, avail>>

(***************************************************************************)
(* convertOfflineReplyToOnline (helper.ts:46-94).                          *)
(*                                                                         *)
(* An optional value is a sequence: <<>> when unset (undefined), <<v>>     *)
(* when set to v.                                                          *)
(***************************************************************************)
Unset == <<>>
Some(v) == <<v>>

\* offlineReply.options: absent, or holding the private flag and, when
\* attachmentsid is there, the online list (optional) and the offline count.
NoOptions == [present |-> FALSE, private |-> Unset, attachmentsid |-> FALSE,
              online |-> Unset, offline |-> 0]

OptionValues ==
    {NoOptions} \cup
    {[present |-> TRUE, private |-> p, attachmentsid |-> FALSE,
      online |-> Unset, offline |-> 0] : p \in {Unset, Some(TRUE)}} \cup
    {[present |-> TRUE, private |-> p, attachmentsid |-> TRUE,
      online |-> on, offline |-> off] :
        p \in {Unset, Some(TRUE)},
        on \in {Unset} \cup {Some(RemoteList(n)) : n \in 0..MaxRemote},
        off \in 0..MaxLocal}

\* The offline replies handed to the conversion.
OfflineReply(forumId, postId, userId, options) ==
    [forumid |-> forumId, postid |-> postId, userid |-> userId,
     discussionid |-> 3, courseid |-> 4, timecreated |-> 5,
     subject |-> "subject", message |-> "message", options |-> options]

OfflineReplies ==
    {OfflineReply(f, r[1], IF r[2] = NoUser THEN CurrentUser ELSE r[2], o) :
        f \in ForumIds, r \in ReplyArgs, o \in OptionValues}

\* JavaScript truthiness of the offline count (helper.ts:73).
Truthy(n) == n # 0

\* helper.ts:70: offlineReply.options && offlineReply.options.attachmentsid
HasAttachmentsId(d) == d.options.present /\ d.options.attachmentsid

HasLocal_AnyAttachmentsId(d) == HasAttachmentsId(d)

\* helper.ts:73: the draft has local attachments.
HasLocal(d) == HasAttachmentsId(d) /\ Truthy(d.options.offline)

\* helper.ts:71: offlineReply.options.attachmentsid.online || []
OnlineOrEmpty(d) ==
    IF d.options.online = Unset THEN <<>> ELSE d.options.online[1]

\* helper.ts:47-66: the reply object as first built.
NewReply(d) ==
    [attachments |-> <<>>, canreply |-> FALSE, children |-> <<>>,
     created |-> d.timecreated, discussion |-> d.discussionid, id |-> FALSE,
     mailed |-> 0, mailnow |-> 0, message |-> d.message, messageformat |-> 1,
     messagetrust |-> 0, modified |-> FALSE, parent |-> d.postid,
     postread |-> FALSE, subject |-> d.subject, totalscore |-> 0,
     userid |-> d.userid,
     isprivatereply |-> IF d.options.present THEN d.options.private ELSE Unset,
     attachment |-> Unset, userfullname |-> Unset, userpictureurl |-> Unset]

\* helper.ts:70-72: the attachments the reply starts with.
InitialAttachments(d) ==
    IF HasAttachmentsId(d) THEN OnlineOrEmpty(d) ELSE <<>>

ConcatFiles_LocalFirst(attachments, files) == files \o attachments

\* helper.ts:76: reply.attachments.concat(files)
ConcatFiles(attachments, files) == attachments \o files

AttachmentFlag_MoreThanOne(attachments) ==
    IF Len(attachments) > 1 THEN 1 ELSE 0

\* helper.ts:90: reply.attachments.length > 0 ? 1 : 0
AttachmentFlag(attachments) ==
    IF Len(attachments) > 0 THEN 1 ELSE 0

\* The user the profile collaborator (CoreUserProvider.getProfile) returns.
Profile(userId) ==
    [fullname |-> <<"fullname", userId>>,
     profileimageurl |-> <<"picture", userId>>]

ListPromise_Swallowed(list) ==
    IF list = "pending" THEN "pending" ELSE "fulfilled"

\* The promise pushed at helper.ts:74-77: it rejects when the listing does.
ListPromise(list) ==
    CASE list = "none" -> "fulfilled"    \* nothing was pushed
      [] list = "pending" -> "pending"
      [] list = "ok" -> "fulfilled"
      [] OTHER -> "rejected"

ProfilePromise_Propagating(profile) ==
    CASE profile = "pending" -> "pending"
      [] profile = "ok" -> "fulfilled"
      [] OTHER -> "rejected"

\* The promise pushed at helper.ts:82-87: the catch makes it fulfilled
\* whether getProfile resolved or rejected.
ProfilePromise(profile) ==
    IF profile = "pending" THEN "pending" ELSE "fulfilled"

AllFulfilled_First(listPromise, profilePromise) ==
    "fulfilled" \in {listPromise, profilePromise}

\* helper.ts:89: the promise of Promise.all is fulfilled when every promise
\* of the array is.
AllFulfilled(listPromise, profilePromise) ==
    listPromise = "fulfilled" /\ profilePromise = "fulfilled"

\* helper.ts:74: the folder whose stored files the conversion lists.
ConvertFolder(d, reply, siteId) ==
    getReplyFolder(d.forumid, reply.parent, siteId, reply.userid)

IdleConv ==
    [pc |-> "idle", draft |-> OfflineReply(0, 0, 0, NoOptions),
     reply |-> NewReply(OfflineReply(0, 0, 0, NoOptions)),
     list |-> "none", listed |-> <<>>, listErr |-> "", profile |-> "none",
     order |-> <<>>, calls |-> <<>>, result |-> Unset, error |-> ""]

\* helper.ts:46-87, up to the first suspension: the reply is built, the
\* listing is asked for when the draft has local attachments, the profile is
\* asked for; the promise of Promise.all is returned, pending.  order lists
\* the subtasks in the order in which they complete.
ConvertStart(d) ==
    /\ conv.pc = "idle"
    /\ conv' = [pc |-> "pending", draft |-> d,
                reply |-> [NewReply(d) EXCEPT !.attachments = InitialAttachments(d)],
                list |-> IF HasLocal(d) THEN "pending" ELSE "none",
                listed |-> <<>>, listErr |-> "",
                profile |-> "pending", order |-> <<>>,
                calls |-> (IF HasLocal(d)
                           THEN <<Call("getStoredFiles",
                                       ConvertFolder(d, NewReply(d), "site1"),
                                       <<>>, "", 0, "")>>
                           ELSE <<>>)
                          \o <<Call("getProfile", NoKey, <<>>, "", d.userid, "")>>,
                result |-> Unset, error |-> ""]
    /\ UNCHANGED <<folders, lastOp, loc, chg, avail>>

\* helper.ts:74-77: getReplyStoredFiles settles; on success its callback
\* appends the files to reply.attachments.
ListingSettles(answer) ==
    /\ conv.pc \in {"pending", "rejected"}
    /\ conv.list = "pending"
    /\ LET d == conv.draft
           r == getStoredFiles(folders,
                                ConvertFolder(d, conv.reply, "site1"), answer)
       IN conv' = IF r.ok
                  THEN [conv EXCEPT
                          !.list = "ok", !.listed = r.files,
                          !.order = Append(conv.order, "list"),
                          !.reply.attachments =
                              ConcatFiles(conv.reply.attachments, r.files)]
                  ELSE [conv EXCEPT !.list = "failed", !.listErr = r.ret,
                                    !.order = Append(conv.order, "list")]
    /\ UNCHANGED <<folders, lastOp, loc, chg, avail>>

\* helper.ts:82-87: getProfile settles; on success its callback sets the two
\* enrichment fields, on failure the catch ignores the error.
ProfileSettles(ok) ==
    /\ conv.pc \in {"pending", "rejected"}
    /\ conv.profile = "pending"
    /\ conv' = IF ok
               THEN [conv EXCEPT
                       !.profile = "ok",
                       !.order = Append(conv.order, "profile"),
                       !.reply.userfullname =
                           Some(Profile(conv.draft.userid).fullname),
                       !.reply.userpictureurl =
                           Some(Profile(conv.draft.userid).profileimageurl)]
               ELSE [conv EXCEPT !.profile = "failed",
                                 !.order = Append(conv.order, "profile")]
    /\ UNCHANGED <<folders, lastOp, loc, chg, avail>>

\* helper.ts:89: Promise.all rejects as soon as one of the promises rejects.
ConvertRejects ==
    /\ conv.pc = "pending"
    /\ "rejected" \in {ListPromise(conv.list), ProfilePromise(conv.profile)}
    /\ conv' = [conv EXCEPT
                  !.pc = "rejected",
                  !.error = IF ListPromise(conv.list) = "rejected"
                            THEN conv.listErr ELSE "ProfileError"]
    /\ UNCHANGED <<folders, lastOp, loc, chg, avail>>

\* helper.ts:89-93: when every promise is fulfilled the flag is computed and
\* the reply returned.
ConvertResolves ==
    /\ conv.pc = "pending"
    /\ AllFulfilled(ListPromise(conv.list), ProfilePromise(conv.profile))
    /\ LET reply == [conv.reply EXCEPT
                        !.attachment = Some(AttachmentFlag(conv.reply.attachments))]
       IN conv' = [conv EXCEPT !.pc = "resolved", !.reply = reply,
                               !.result = Some(reply)]
    /\ UNCHANGED <<folders, lastOp, loc, chg, avail>>

(***************************************************************************)
(* getDiscussionById (helper.ts:161-181).                                  *)
(*                                                                         *)
(* The listing collaborator (AddonModForumProvider.getDiscussions) serves  *)
(* the pages of a listing: every page but the last reports canLoadMore.    *)
(* A page holds discussions with distinct ids, or none.                    *)
(***************************************************************************)
DiscussionIds == {1, 2}
TargetIds == {1, 2}

RECURSIVE SeqsUpTo(_, _)
\* The sequences of distinct members of S of length at most n.
SeqsUpTo(S, n) ==
    IF n = 0 THEN {<<>>}
    ELSE LET shorter == SeqsUpTo(S, n - 1)
             longest == {q \in shorter : Len(q) = n - 1}
         IN shorter \cup
            UNION {{Append(q, x) : x \in S \ {q[i] : i \in 1..Len(q)}} :
                   q \in longest}

PageContents == SeqsUpTo(DiscussionIds, Cardinality(DiscussionIds))

\* The response to the fetch of page number page (from 0) of a listing given
\* as the sequence of its pages' id lists.
Response(listing, page) ==
    [discussions |-> [i \in 1..Len(listing[page + 1]) |->
                         [id |-> listing[page + 1][i], page |-> page, pos |-> i]],
     canLoadMore |-> page + 1 < Len(listing)]

Listings == UNION {[1..n -> PageContents] : n \in 1..MaxPages}

\* The errors a failed page fetch rejects with; the collaborator may reject
\* with null as well as with an error object.
FetchErrors == {"null", "NetworkError"}

\* helper.ts:167: response.discussions.find((d) => d.id == discussionId), as
\* the position of the first match, 0 when there is none.
FindDiscussion(discussions, discussionId) ==
    IF \E i \in 1..Len(discussions) : discussions[i].id = discussionId
    THEN CHOOSE i \in 1..Len(discussions) :
            /\ discussions[i].id = discussionId
            /\ \A j \in 1..(i - 1) : discussions[j].id # discussionId
    ELSE 0

\* helper.ts:166: response.discussions && response.discussions.length > 0
ScansPage(discussions) == Len(discussions) > 0

NextPage_Same(page) == page

\* helper.ts:172: findDiscussion(page + 1)
NextPage(page) == page + 1

IdleLoc ==
    [pc |-> "idle", listing |-> <<>>, target |-> 0, page |-> 0,
     fetches |-> <<>>, inflight |-> 0, result |-> <<>>, error |-> "",
     cause |-> ""]

\* helper.ts:161-165 and 180: findDiscussion(0) issues the fetch of page 0.
getDiscussionById(listing, discussionId) ==
    /\ loc.pc = "idle"
    /\ loc' = [IdleLoc EXCEPT !.pc = "fetching", !.listing = listing,
                              !.target = discussionId, !.page = 0,
                              !.fetches = <<0>>, !.inflight = 1]
    /\ UNCHANGED <<folders, lastOp, conv, chg, avail>>

\* helper.ts:165-177: the fetch of the current page settles.  A failure
\* rejects the lookup with the collaborator's error.  Otherwise, on a page
\* with discussions: the match is returned, or the next page is fetched when
\* the page reports canLoadMore; in every other case the lookup rejects
\* with null.
FetchSettles(answer) ==
    /\ loc.pc = "fetching"
    /\ LET response == Response(loc.listing, loc.page)
           found == FindDiscussion(response.discussions, loc.target)
       IN loc' =
            IF answer # "ok"
            THEN [loc EXCEPT !.pc = "rejected", !.inflight = 0,
                             !.error = answer, !.cause = "fetch"]
            ELSE IF ScansPage(response.discussions) /\ found # 0
            THEN [loc EXCEPT !.pc = "resolved", !.inflight = 0,
                             !.result = <<response.discussions[found]>>]
            ELSE IF ScansPage(response.discussions) /\ response.canLoadMore
            THEN [loc EXCEPT !.page = NextPage(loc.page),
                             !.fetches = Append(loc.fetches, NextPage(loc.page))]
            ELSE [loc EXCEPT !.pc = "rejected", !.inflight = 0,
                             !.error = "null", !.cause = "notfound"]
    /\ UNCHANGED <<folders, lastOp, conv, chg, avail>>

(***************************************************************************)
(* hasPostDataChanged (helper.ts:219-234).                                 *)
(*                                                                         *)
(* A JavaScript value is [t, v]: its type and, for a string or a boolean,  *)
(* its value written as a string.  The values of the model are undefined,  *)
(* null, non-empty non-numeric strings and booleans.                       *)
(***************************************************************************)
JsUndefined == [t |-> "undefined", v |-> ""]
JsNull == [t |-> "null", v |-> ""]
JsString(str) == [t |-> "string", v |-> str]
JsBoolean(b) == [t |-> "boolean", v |-> IF b THEN "true" ELSE "false"]

Nullish(x) == x.t \in {"undefined", "null"}

\* The == of JavaScript on these values: null and undefined equal each
\* other and nothing else; a string never equals a boolean here (no string
\* of the model converts to 0 or 1).
LooseEq(x, y) ==
    IF Nullish(x) \/ Nullish(y)
    THEN Nullish(x) /\ Nullish(y)
    ELSE x.t = y.t /\ x.v = y.v

\* The file lists of a post: none (undefined) or a list of distinct files.
PostFiles ==
    {Unset} \cup {Some(l) : l \in SeqsUpTo({LocalFile(1), LocalFile(2)}, 2)}

Posts ==
    [subject : {JsUndefined, JsString("a"), JsString("b")},
     message : {JsString("m"), JsString("n")},
     isprivatereply : {JsUndefined, JsBoolean(TRUE), JsBoolean(FALSE)},
     files : PostFiles]

\* The original data: absent, or a post whose subject may be undefined or
\* null.
Originals ==
    {Unset} \cup
    {Some(o) : o \in
        [subject : {JsUndefined, JsNull, JsString("a"), JsString("b")},
         message : {JsString("m"), JsString("n")},
         isprivatereply : {JsUndefined, JsBoolean(TRUE), JsBoolean(FALSE)},
         files : PostFiles]}

\* The number of times file f occurs in list l.
Occurrences(f, l) == Cardinality({i \in 1..Len(l) : l[i] = f})

\* CoreFileUploaderProvider.areFileListDifferent (not under src/): an absent
\* list counts as empty; the lists differ when they do not hold the same
\* files, whatever their order.
areFileListDifferent(a, b) ==
    LET la == IF a = Unset THEN <<>> ELSE a[1]
        lb == IF b = Unset THEN <<>> ELSE b[1]
    IN \/ Len(la) # Len(lb)
       \/ \E i \in 1..Len(la) : Occurrences(la[i], la) # Occurrences(la[i], lb)

NoOriginal_StrictNull(original) ==
    original = Unset \/ original[1].subject = JsNull

\* helper.ts:220: !original || original.subject == null
NoOriginal(original) ==
    original = Unset \/ LooseEq(original[1].subject, JsNull)

\* helper.ts:225: post.subject != original.subject ||
\*                post.message != original.message
TextChanged(post, o) ==
    ~LooseEq(post.subject, o.subject) \/ ~LooseEq(post.message, o.message)

PrivacyChanged_Ignored(post, o) == FALSE

\* helper.ts:229: post.isprivatereply != original.isprivatereply
PrivacyChanged(post, o) == ~LooseEq(post.isprivatereply, o.isprivatereply)

\* helper.ts:219-234 as a function: the value returned and whether
\* areFileListDifferent was called to get it.
PostDataChanged(post, original) ==
    IF NoOriginal(original)
    THEN [result |-> FALSE, consulted |-> FALSE]
    ELSE IF TextChanged(post, original[1])
    THEN [result |-> TRUE, consulted |-> FALSE]
    ELSE IF PrivacyChanged(post, original[1])
    THEN [result |-> TRUE, consulted |-> FALSE]
    ELSE [result |-> areFileListDifferent(post.files, original[1].files),
          consulted |-> TRUE]

IdleChg ==
    [pc |-> "idle",
     post |-> [subject |-> JsUndefined, message |-> JsString("m"),
               isprivatereply |-> JsUndefined, files |-> Unset],
     original |-> Unset, result |-> FALSE, consulted |-> FALSE]

hasPostDataChanged(post, original) ==
    /\ chg.pc = "idle"
    /\ LET r == PostDataChanged(post, original)
       IN chg' = [pc |-> "done", post |-> post, original |-> original,
                  result |-> r.result, consulted |-> r.consulted]
    /\ UNCHANGED <<folders, lastOp, conv, loc, avail>>

(***************************************************************************)
(* getAvailabilityMessage, isCutoffDateReached, isDueDateReached           *)
(* (helper.ts:135-149, 242-258).                                           *)
(*                                                                         *)
(* The forum's dates are in seconds, the clock (Date.now()) in             *)
(* milliseconds.  Each of the two tests reads the clock itself, so a call  *)
(* sees two readings, the second not before the first.                     *)
(***************************************************************************)
MsPerSecond == 1000

\* The cut-off and due dates of a forum, in seconds; 0 when not set.
ForumDates == {0, 100, 200}
Forums == [cutoffdate : ForumDates, duedate : ForumDates]

\* The readings of Date.now(): around each date to the millisecond, and
\* between the dates.
ClockValues == {99999, 100000, 100001, 150000, 200000, 200001}
NoRead == -1

RECURSIVE Decimal(_)
\* The decimal digits of a natural number, most significant first.
Decimal(n) ==
    IF n < 10 THEN <<n>> ELSE Append(Decimal(n \div 10), n % 10)

\* CoreTimeUtilsProvider.userDate (not under src/): the display string of a
\* timestamp in milliseconds; here the formatter that renders its argument
\* in decimal.
userDate(timestamp) == Decimal(timestamp)

\* TranslateService.instant (not under src/): the message of a key with its
\* $a parameter, if any.
instant(key, a) == [key |-> key, a |-> a]
NullMessage == [key |-> "null", a |-> Unset]

\* helper.ts:243-245: now = Date.now() / 1000; cutoffdate > 0 &&
\* cutoffdate < now.  The division is exact, so cutoffdate < ms / 1000 is
\* cutoffdate * 1000 < ms.
isCutoffDateReached(forum, ms) ==
    forum.cutoffdate > 0 /\ forum.cutoffdate * MsPerSecond < ms

\* helper.ts:255-257: the same test on duedate.
isDueDateReached(forum, ms) ==
    forum.duedate > 0 /\ forum.duedate * MsPerSecond < ms

DueDateArgument_Seconds(forum) == forum.duedate

\* helper.ts:139 and 143: forum.duedate * 1000, the argument of userDate.
DueDateArgument(forum) == forum.duedate * MsPerSecond

\* helper.ts:135-149 as a function of the forum and of the clock readings
\* of the cut-off test (ms1) and of the due-date test (ms2).
AvailabilityMessage(forum, ms1, ms2) ==
    IF isCutoffDateReached(forum, ms1)
    THEN instant("addon.mod_forum.cutoffdatereached", Unset)
    ELSE IF isDueDateReached(forum, ms2)
    THEN instant("addon.mod_forum.thisforumisdue",
                 Some(userDate(DueDateArgument(forum))))
    ELSE IF forum.duedate > 0
    THEN instant("addon.mod_forum.thisforumhasduedate",
                 Some(userDate(DueDateArgument(forum))))
    ELSE NullMessage

IdleAvail ==
    [pc |-> "idle", forum |-> [cutoffdate |-> 0, duedate |-> 0],
     called |-> NoRead, read1 |-> NoRead, read2 |-> NoRead,
     returned |-> NoRead, message |-> NullMessage]

\* One call: the clock reads called when it starts, ms1 in
\* isCutoffDateReached, ms2 in isDueDateReached (which runs only when the
\* cut-off test fails) and returned when it returns.
getAvailabilityMessage(forum, called, ms1, ms2, returned) ==
    /\ avail.pc = "idle"
    /\ called <= ms1 /\ ms1 <= ms2 /\ ms2 <= returned
    /\ avail' = [pc |-> "done", forum |-> forum, called |-> called,
                 read1 |-> ms1,
                 read2 |-> IF isCutoffDateReached(forum, ms1)
                           THEN NoRead ELSE ms2,
                 returned |-> returned,
                 message |-> AvailabilityMessage(forum, ms1, ms2)]
    /\ UNCHANGED <<folders, lastOp, conv, loc, chg>>

(***************************************************************************)
(* The folder operations as one next-state relation.  The file store is on *)
(* the device and outlives the helper: at construction every folder may    *)
(* hold any stored attachment set or not exist.                            *)
(***************************************************************************)
RemoveAnswers == {"ok", "NotFoundError", "OtherError"}

InitFolders ==
    /\ folders \in [FolderKeys -> FolderValues]
    /\ lastOp = NoOp
    /\ conv = IdleConv
    /\ loc = IdleLoc
    /\ chg = IdleChg
    /\ avail = IdleAvail

NextFolders ==
    \/ \E f \in ForumIds, t \in Times, s \in SiteIds, a \in RemoveAnswers :
          deleteNewDiscussionStoredFiles(f, t, s, a)
    \/ \E f \in ForumIds, r \in ReplyArgs, s \in SiteIds, a \in RemoveAnswers :
          deleteReplyStoredFiles(f, r[1], s, r[2], a)
    \/ \E f \in ForumIds, t \in Times, s \in SiteIds, a \in ListAnswers :
          getNewDiscussionStoredFiles(f, t, s, a)
    \/ \E f \in ForumIds, r \in ReplyArgs, s \in SiteIds, a \in ListAnswers :
          getReplyStoredFiles(f, r[1], s, r[2], a)
    \/ \E f \in ForumIds, t \in Times, fl \in FileInputs, s \in SiteIds,
          a \in StoreAnswers :
          storeNewDiscussionFiles(f, t, fl, s, a)
    \/ \E f \in ForumIds, r \in ReplyArgs, fl \in FileInputs, s \in SiteIds,
          a \in StoreAnswers :
          storeReplyFiles(f, r[1], fl, s, r[2], a)
    \/ \E f \in ForumIds, t \in Times, fl \in FileInputs, o \in BOOLEAN,
          s \in SiteIds, a \in StoreAnswers \cup UploadAnswers :
          uploadOrStoreNewDiscussionFiles(f, t, fl, o, s, a)
    \/ \E f \in ForumIds, r \in ReplyArgs, fl \in FileInputs, o \in BOOLEAN,
          s \in SiteIds, a \in StoreAnswers \cup UploadAnswers :
          uploadOrStoreReplyFiles(f, r[1], fl, o, s, r[2], a)

SpecFolders == InitFolders /\ [][NextFolders]_vars

(***************************************************************************)
(* The conversion as a next-state relation: one conversion, started with   *)
(* any offline reply over any state of the file store.                     *)
(***************************************************************************)
InitConvert ==
    /\ folders \in [FolderKeys -> FolderValues]
    /\ lastOp = NoOp
    /\ conv = IdleConv
    /\ loc = IdleLoc
    /\ chg = IdleChg
    /\ avail = IdleAvail

NextConvert ==
    \/ /\ conv.pc = "idle"
       /\ \E d \in OfflineReplies : ConvertStart(d)
    \/ \E a \in ListAnswers : ListingSettles(a)
    \/ \E ok \in BOOLEAN : ProfileSettles(ok)
    \/ ConvertRejects
    \/ ConvertResolves

SpecConvert == InitConvert /\ [][NextConvert]_vars

(***************************************************************************)
(* The stored files of replies across the operations: a caller that stores, *)
(* lists and deletes the stored files of replies, one call at a time, and  *)
(* then converts an offline reply that has local attachments.              *)
(***************************************************************************)
\* The offline replies with local attachments and one remote entry.
KeyDrafts ==
    {d \in OfflineReplies :
        /\ HasLocal(d)
        /\ d.options.offline = 1
        /\ d.options.private = Unset
        /\ d.options.online = Some(RemoteList(1))}

InitReplyFiles ==
    /\ folders \in [FolderKeys -> FolderValues]
    /\ lastOp = NoOp
    /\ conv = IdleConv
    /\ loc = IdleLoc
    /\ chg = IdleChg
    /\ avail = IdleAvail

NextReplyFiles ==
    \/ /\ conv.pc = "idle"
       /\ \E f \in ForumIds, r \in ReplyArgs, fl \in FileInputs, s \in SiteIds,
             a \in StoreAnswers :
             storeReplyFiles(f, r[1], fl, s, r[2], a)
    \/ /\ conv.pc = "idle"
       /\ \E f \in ForumIds, r \in ReplyArgs, fl \in FileInputs, s \in SiteIds,
             a \in StoreAnswers :
             uploadOrStoreReplyFiles(f, r[1], fl, TRUE, s, r[2], a)
    \/ /\ conv.pc = "idle"
       /\ \E f \in ForumIds, r \in ReplyArgs, s \in SiteIds, a \in ListAnswers :
             getReplyStoredFiles(f, r[1], s, r[2], a)
    \/ /\ conv.pc = "idle"
       /\ \E f \in ForumIds, r \in ReplyArgs, s \in SiteIds, a \in RemoveAnswers :
             deleteReplyStoredFiles(f, r[1], s, r[2], a)
    \/ /\ conv.pc = "idle"
       /\ \E d \in KeyDrafts : ConvertStart(d)
    \/ \E a \in ListAnswers : ListingSettles(a)
    \/ \E ok \in BOOLEAN : ProfileSettles(ok)
    \/ ConvertRejects
    \/ ConvertResolves

SpecReplyFiles == InitReplyFiles /\ [][NextReplyFiles]_vars

(***************************************************************************)
(* The lookup as a next-state relation: one lookup of any target over any  *)
(* listing.                                                                *)
(***************************************************************************)
InitLocator ==
    /\ folders = [k \in FolderKeys |-> NoFolder]
    /\ lastOp = NoOp
    /\ conv = IdleConv
    /\ loc = IdleLoc
    /\ chg = IdleChg
    /\ avail = IdleAvail

NextLocator ==
    \/ /\ loc.pc = "idle"
       /\ \E l \in Listings, t \in TargetIds : getDiscussionById(l, t)
    \/ \E a \in {"ok"} \cup FetchErrors : FetchSettles(a)

SpecLocator == InitLocator /\ [][NextLocator]_vars

\* Every page fetch completes: the promise of getDiscussions settles, and
\* its callback (helper.ts:165-177) then runs.
SpecLocatorFair ==
    /\ InitLocator
    /\ [][NextLocator]_vars
    /\ WF_vars(\E a \in {"ok"} \cup FetchErrors : FetchSettles(a))

(***************************************************************************)
(* The change detection as a next-state relation: one call on any post and *)
(* any original.                                                           *)
(***************************************************************************)
InitChange ==
    /\ folders = [k \in FolderKeys |-> NoFolder]
    /\ lastOp = NoOp
    /\ conv = IdleConv
    /\ loc = IdleLoc
    /\ chg = IdleChg
    /\ avail = IdleAvail

NextChange ==
    /\ chg.pc = "idle"
    /\ \E post \in Posts, original \in Originals :
          hasPostDataChanged(post, original)

SpecChange == InitChange /\ [][NextChange]_vars

(***************************************************************************)
(* The availability message as a next-state relation: one call on any      *)
(* forum, with any readings of a clock that does not go back.              *)
(***************************************************************************)
InitAvail ==
    /\ folders = [k \in FolderKeys |-> NoFolder]
    /\ lastOp = NoOp
    /\ conv = IdleConv
    /\ loc = IdleLoc
    /\ chg = IdleChg
    /\ avail = IdleAvail

NextAvail ==
    /\ avail.pc = "idle"
    /\ \E forum \in Forums, called, ms1, ms2, returned \in ClockValues :
          getAvailabilityMessage(forum, called, ms1, ms2, returned)

SpecAvail == InitAvail /\ [][NextAvail]_vars

(***************************************************************************)
(* Properties of the folder operations.                                    *)
(***************************************************************************)
DeleteOps == {"deleteNewDiscussionStoredFiles", "deleteReplyStoredFiles"}
RouteOps == {"uploadOrStoreNewDiscussionFiles", "uploadOrStoreReplyFiles"}

\* The folder an operation's arguments name.
FolderOf(op, a) ==
    IF op \in {"deleteNewDiscussionStoredFiles", "getNewDiscussionStoredFiles",
               "storeNewDiscussionFiles", "uploadOrStoreNewDiscussionFiles"}
    THEN getNewDiscussionFolder(a.forum, a.id, a.site)
    ELSE getReplyFolder(a.forum, a.id, a.site, a.user)

\* C5: a delete called right after a delete with the same arguments finds
\* both calls resolved and leaves the file store exactly as the first call
\* left it.
C5_SecondDeleteChangesNothing ==
    (lastOp.op \in DeleteOps /\ lastOp.prev # "none") =>
        /\ lastOp.prev = "resolved"
        /\ lastOp.outcome = "resolved"
        /\ ~lastOp.changed

\* What holds of every delete: it resolves, and when the folder does not
\* exist at the call it leaves the file store as it is.
DeleteOfAbsentFolderChangesNothing ==
    lastOp.op \in DeleteOps =>
        /\ lastOp.outcome = "resolved"
        /\ ~lastOp.existed => ~lastOp.changed

\* C6: when removeDir fails for another reason than the folder not existing,
\* the delete operation rejects with that failure.
C6_OtherFailureRejects ==
    (lastOp.op \in DeleteOps /\ lastOp.call.ret = "OtherError") =>
        (lastOp.outcome = "rejected" /\ lastOp.value = "OtherError")

\* C9: the routing operations decide on the offline flag alone.  Offline:
\* the one collaborator call is storeFilesToUpload on the folder of the key
\* (the reply key with the given userId for a reply) and, when it succeeds,
\* that folder holds the local files handed in.  Online: the one call is
\* uploadOrReuploadFiles with the forum component and forumId, and the file
\* store is untouched.  Either way the call's result or rejection is the
\* operation's.
C9_RoutesOnOfflineFlag ==
    lastOp.op \in RouteOps =>
        LET key == FolderOf(lastOp.op, lastOp.args)
            c == lastOp.call
        IN /\ c.files = lastOp.files
           /\ lastOp.value = c.ret
           /\ lastOp.outcome =
                 (IF c.ret \in {"StoreError", "UploadError"}
                  THEN "rejected" ELSE "resolved")
           /\ IF lastOp.offline
              THEN /\ c.fn = "storeFilesToUpload"
                   /\ c.key = key
                   /\ c.ret = "stored" =>
                         folders[key] = Folder(SelectSeq(lastOp.files, IsLocal))
                   /\ c.ret # "stored" => ~lastOp.changed
              ELSE /\ c.fn = "uploadOrReuploadFiles"
                   /\ c.component = COMPONENT
                   /\ c.entity = lastOp.args.forum
                   /\ ~lastOp.changed

\* An offline reply routing has stored a local file in the folder of user 2.
C9_Witness ==
    /\ lastOp.op = "uploadOrStoreReplyFiles"
    /\ lastOp.offline
    /\ lastOp.args.user = 2
    /\ lastOp.call.fn = "storeFilesToUpload"
    /\ lastOp.outcome = "resolved"
    /\ lastOp.changed
    /\ Len(folders[getReplyFolder(7, 1, "site1", 2)].files) = 1

(***************************************************************************)
(* Properties of convertOfflineReplyToOnline.                              *)
(***************************************************************************)
\* The post the conversion resolved with.
Returned == conv.result[1]

\* The draft's remote list and whether it has local attachments, read off
\* the draft.
RemoteOf(d) ==
    IF d.options.present /\ d.options.attachmentsid /\ d.options.online # Unset
    THEN d.options.online[1] ELSE <<>>

LocalSet(d) ==
    d.options.present /\ d.options.attachmentsid /\ d.options.offline # 0

\* C1: whenever the conversion resolves, the returned post has attachment 1
\* if its attachments list is non-empty and 0 otherwise; the flag is not set
\* before both subtasks have finished.
C1_FlagIffNonEmpty ==
    /\ conv.pc = "resolved" =>
          /\ conv.result # Unset
          /\ Returned.attachment =
                Some(IF Returned.attachments # <<>> THEN 1 ELSE 0)
          /\ conv.list # "pending" /\ conv.profile # "pending"
    /\ conv.pc # "resolved" => conv.reply.attachment = Unset

\* A draft without remote entries resolved with flag 1 because the listing
\* returned a stored file.
C1_Witness ==
    /\ conv.pc = "resolved"
    /\ RemoteOf(conv.draft) = <<>>
    /\ Len(conv.listed) = 1
    /\ Returned.attachment = Some(1)

\* C2: when getProfile rejects, the conversion rejects only if the listing
\* failed, can resolve as soon as the listing (if any) has succeeded, and
\* the post it resolves with has userfullname and userpictureurl unset;
\* apart from these two fields the returned post depends on the draft and
\* the listed files alone, so it is the post of a conversion whose profile
\* fetch succeeded.
C2_ProfileFailureIgnored ==
    /\ conv.profile = "failed" =>
          /\ conv.pc = "rejected" => conv.list = "failed"
          /\ (conv.pc = "pending" /\ conv.list \in {"none", "ok"})
                => ENABLED ConvertResolves
          /\ conv.pc = "resolved" =>
                /\ Returned.userfullname = Unset
                /\ Returned.userpictureurl = Unset
    /\ conv.pc = "resolved" =>
          [Returned EXCEPT !.userfullname = Unset, !.userpictureurl = Unset]
             = [NewReply(conv.draft) EXCEPT
                   !.attachments = RemoteOf(conv.draft) \o conv.listed,
                   !.attachment = Some(IF RemoteOf(conv.draft) \o conv.listed = <<>>
                                       THEN 0 ELSE 1)]

\* The conversion resolved after getProfile rejected and the listing
\* returned a file.
C2_Witness ==
    /\ conv.pc = "resolved"
    /\ conv.profile = "failed"
    /\ conv.list = "ok"
    /\ Len(conv.listed) = 1
    /\ Returned.userfullname = Unset

\* C3: when the draft has local attachments and the listing rejects, no post
\* is returned: the conversion can do nothing but reject, with the listing's
\* failure, whatever the state of the profile fetch.
C3_ListingFailureRejects ==
    conv.list = "failed" =>
        /\ LocalSet(conv.draft)
        /\ conv.pc \in {"pending", "rejected"}
        /\ conv.result = Unset
        /\ conv.pc = "pending" => (ENABLED ConvertRejects /\ ~ENABLED ConvertResolves)
        /\ conv.pc = "rejected" => conv.error = conv.listErr

\* The conversion was rejected by the listing's failure although the
\* profile fetch resolved.
C3_Witness ==
    /\ conv.pc = "rejected"
    /\ conv.list = "failed"
    /\ conv.profile = "ok"
    /\ conv.error = "ListError"

\* C4: the attachments of the returned post are the draft's remote entries
\* in their order followed, when the draft has local attachments, by the
\* files the listing returned in their order.
C4_MergeOrder ==
    conv.pc = "resolved" =>
        Returned.attachments =
            RemoteOf(conv.draft) \o
            (IF LocalSet(conv.draft) THEN conv.listed ELSE <<>>)

\* Two remote entries and one local file were merged.
C4_Witness ==
    /\ conv.pc = "resolved"
    /\ Returned.attachments = <<RemoteFile(2), RemoteFile(1), LocalFile(1)>>

\* The post a conversion of draft d returns when the listing (if any) gave
\* files and the profile fetch succeeded or not: a function of the draft and
\* of the two results.
ExpectedPost(d, files, profileOk) ==
    LET attachments == RemoteOf(d) \o (IF LocalSet(d) THEN files ELSE <<>>)
    IN [NewReply(d) EXCEPT
          !.attachments = attachments,
          !.attachment = Some(IF attachments = <<>> THEN 0 ELSE 1),
          !.userfullname =
              IF profileOk THEN Some(<<"fullname", d.userid>>) ELSE Unset,
          !.userpictureurl =
              IF profileOk THEN Some(<<"picture", d.userid>>) ELSE Unset]

\* The collaborator calls of the conversion, by name.
CallsOf(fn) == {i \in 1..Len(conv.calls) : conv.calls[i].fn = fn}

\* C16: the profile fetch and, for a draft with local attachments, the
\* listing are both issued before either completes; in whichever order they
\* complete, the conversion resolves only when neither is pending, with the
\* post the draft and the two results determine, and rejects only with the
\* failure of the listing.
C16_OrderIndependent ==
    conv.pc # "idle" =>
        /\ Cardinality(CallsOf("getProfile")) = 1
        /\ Cardinality(CallsOf("getStoredFiles")) =
              (IF LocalSet(conv.draft) THEN 1 ELSE 0)
        /\ conv.order = <<>> =>
              /\ conv.profile = "pending"
              /\ conv.list = (IF LocalSet(conv.draft) THEN "pending" ELSE "none")
        /\ conv.pc = "resolved" =>
              /\ conv.list # "pending" /\ conv.profile # "pending"
              /\ Returned =
                    ExpectedPost(conv.draft, conv.listed, conv.profile = "ok")
        /\ conv.pc = "rejected" =>
              /\ conv.list = "failed"
              /\ conv.error = conv.listErr
        /\ (conv.pc = "pending" /\ conv.list = "failed") =>
              ENABLED ConvertRejects
        /\ (/\ conv.pc = "pending"
            /\ conv.list \in {"none", "ok"}
            /\ conv.profile # "pending") => ENABLED ConvertResolves

\* The profile fetch completed before the listing, and the conversion
\* resolved with the listed file and the profile.
C16_Witness ==
    /\ conv.pc = "resolved"
    /\ conv.order = <<"profile", "list">>
    /\ conv.profile = "ok"
    /\ Len(conv.listed) = 1
    /\ Returned.attachments = RemoteOf(conv.draft) \o conv.listed
    /\ Returned.userfullname # Unset

\* C17: for a draft without local attachments the conversion calls the
\* profile collaborator and nothing else, cannot reject, resolves once the
\* profile fetch has completed either way, and returns the draft's remote
\* list as attachments; it changes neither the draft nor the file store.
C17_NoLocalNeverFails ==
    /\ []((conv.pc # "idle" /\ ~LocalSet(conv.draft)) =>
            /\ \A i \in 1..Len(conv.calls) : conv.calls[i].fn = "getProfile"
            /\ conv.list = "none"
            /\ conv.pc # "rejected"
            /\ ~ENABLED ConvertRejects
            /\ (conv.pc = "pending" /\ conv.profile # "pending") =>
                  ENABLED ConvertResolves
            /\ conv.pc = "resolved" =>
                  /\ Returned.attachments = RemoteOf(conv.draft)
                  /\ Returned.attachment =
                        Some(IF RemoteOf(conv.draft) = <<>> THEN 0 ELSE 1))
    /\ [][conv.pc # "idle" =>
            /\ conv'.draft = conv.draft
            /\ folders' = folders]_vars

\* A draft with an attachments entry and two remote files but no local ones
\* resolved after the profile fetch failed.
C17_Witness ==
    /\ conv.pc = "resolved"
    /\ conv.draft.options.attachmentsid
    /\ conv.draft.options.offline = 0
    /\ conv.profile = "failed"
    /\ Returned.attachments = <<RemoteFile(2), RemoteFile(1)>>

(***************************************************************************)
(* Properties of the stored files of replies across the operations.        *)
(***************************************************************************)
\* The call recorded in op stored files for a reply, successfully.
StoredReplyFiles(op) ==
    /\ op.op \in {"storeReplyFiles", "uploadOrStoreReplyFiles"}
    /\ op.call.fn = "storeFilesToUpload"
    /\ op.outcome = "resolved"

\* The local files among those handed to the call recorded in op.
LocalFilesOf(op) == SelectSeq(op.files, IsLocal)

\* The draft is of the reply the arguments name: same forum, same post,
\* same user (the current user when the userId argument was left out).
DraftMatches(d, a) ==
    /\ d.forumid = a.forum
    /\ d.postid = a.id
    /\ d.userid = (IF a.user = NoUser THEN CurrentUser ELSE a.user)

\* A listing that follows a store with the same arguments returns exactly
\* the files stored.
StoredThenListed ==
    (/\ StoredReplyFiles(lastOp)
     /\ lastOp'.op = "getReplyStoredFiles"
     /\ lastOp'.args = lastOp.args
     /\ lastOp'.outcome = "resolved")
    => lastOp'.files = LocalFilesOf(lastOp)

\* A conversion that follows a store for the reply of its draft lists
\* exactly the files stored and appends them to the remote entries.
StoredThenConverted ==
    (/\ StoredReplyFiles(lastOp)
     /\ conv.list = "ok"
     /\ DraftMatches(conv.draft, lastOp.args))
    => /\ conv.listed = LocalFilesOf(lastOp)
       /\ conv.pc = "resolved" =>
             Returned.attachments = RemoteOf(conv.draft) \o LocalFilesOf(lastOp)

\* A delete leaves the folder of every other key as it was.
DeleteLeavesOtherKeys ==
    lastOp'.op = "deleteReplyStoredFiles" =>
        \A k \in FolderKeys \ {FolderOf(lastOp'.op, lastOp'.args)} :
            folders'[k] = folders[k]

\* After a delete that resolved, the folder of its key is gone.
DeleteRemoves ==
    (lastOp.op = "deleteReplyStoredFiles" /\ lastOp.outcome = "resolved") =>
        folders[FolderOf(lastOp.op, lastOp.args)] = NoFolder

\* After a delete whose removeDir did not fail, the folder of its key is
\* gone.
DeleteRemovesUnlessRemoveDirFails ==
    (lastOp.op = "deleteReplyStoredFiles" /\ lastOp.call.ret = "undefined") =>
        folders[FolderOf(lastOp.op, lastOp.args)] = NoFolder

\* C18: store, list, convert and delete agree on the folder of a reply: the
\* files stored with (forumId, postId, siteId, userId) are the files a
\* listing with the same arguments returns and the local entries a
\* conversion of a draft of that reply appends; a delete with the same
\* arguments removes them, and leaves the folders of all other keys as they
\* were.
C18_ReplyKeyConsistent ==
    /\ [](StoredThenConverted /\ DeleteRemoves)
    /\ [][StoredThenListed /\ DeleteLeavesOtherKeys]_vars

\* What holds of the four operations: they agree on the folder of a reply,
\* and a delete removes that folder and no other unless removeDir fails.
ReplyKeyShared ==
    /\ [](StoredThenConverted /\ DeleteRemovesUnlessRemoveDirFails)
    /\ [][StoredThenListed /\ DeleteLeavesOtherKeys]_vars

(***************************************************************************)
(* Properties of getDiscussionById.                                        *)
(***************************************************************************)
LookupDone == loc.pc \in {"resolved", "rejected"}

\* Whether page number page of the listing holds the target.
PageHolds(listing, page, target) ==
    \E i \in 1..Len(listing[page + 1]) : listing[page + 1][i] = target

\* The number of the first page holding the target, -1 when none does.
FirstPageWith(listing, target) ==
    IF \E p \in 0..(Len(listing) - 1) : PageHolds(listing, p, target)
    THEN CHOOSE p \in 0..(Len(listing) - 1) :
            /\ PageHolds(listing, p, target)
            /\ \A q \in 0..(p - 1) : ~PageHolds(listing, q, target)
    ELSE -1

\* The pages are fetched one at a time, in the order 0, 1, 2, ...
SequentialScan ==
    loc.pc # "idle" =>
        /\ loc.fetches = [i \in 1..Len(loc.fetches) |-> i - 1]
        /\ loc.inflight = (IF loc.pc = "fetching" THEN 1 ELSE 0)
        /\ loc.pc = "fetching" => loc.page = Len(loc.fetches) - 1

\* C7: the pages are fetched one at a time from page 0 in increasing order,
\* and when the target first appears on page k (every earlier page reporting
\* canLoadMore) and no fetch fails, exactly the fetches 0..k are issued and
\* the matching discussion of page k is returned.
C7_ScanReachesFirstMatch ==
    /\ SequentialScan
    /\ LET k == FirstPageWith(loc.listing, loc.target)
       IN (LookupDone /\ loc.cause # "fetch" /\ k # -1) =>
             /\ loc.pc = "resolved"
             /\ loc.fetches = [i \in 1..(k + 1) |-> i - 1]
             /\ loc.result[1].id = loc.target
             /\ loc.result[1].page = k

\* C8: the lookup fails with not-found exactly when the page fetched last
\* holds no discussion with the target id and reports canLoadMore = false,
\* and a discussion it returns has the requested id.
C8_NotFoundOnlyAtTheEnd ==
    (LookupDone /\ loc.cause # "fetch") =>
        LET last == Len(loc.fetches) - 1
            exhausted == /\ ~PageHolds(loc.listing, last, loc.target)
                         /\ ~Response(loc.listing, last).canLoadMore
        IN /\ (loc.pc = "rejected" /\ loc.cause = "notfound") <=> exhausted
           /\ loc.pc = "resolved" => loc.result[1].id = loc.target

\* Whether the fetch of the i-th entry of loc.fetches has completed with a
\* response.
Answered(i) ==
    \/ i < Len(loc.fetches)
    \/ i = Len(loc.fetches) /\ LookupDone /\ loc.cause # "fetch"

\* C13: every answered page that does not hold the target and reports
\* canLoadMore is followed by the fetch of the next page, an empty page
\* included, so that a lookup no fetch of which fails finds a target that is
\* on some page.
C13_AdvancesWhileMorePages ==
    /\ \A i \in 1..Len(loc.fetches) :
          (/\ Answered(i)
           /\ ~PageHolds(loc.listing, loc.fetches[i], loc.target)
           /\ Response(loc.listing, loc.fetches[i]).canLoadMore)
          => /\ i < Len(loc.fetches)
             /\ loc.fetches[i + 1] = loc.fetches[i] + 1
    /\ (/\ LookupDone
        /\ loc.cause # "fetch"
        /\ \E p \in 0..(Len(loc.listing) - 1) :
              PageHolds(loc.listing, p, loc.target))
       => loc.pc = "resolved"

\* What holds of a failed page fetch: the lookup rejects with the failure of
\* the collaborator, nothing is in flight, and the page that failed is the
\* last one fetched.
FetchFailurePropagates ==
    loc.cause = "fetch" =>
        /\ loc.pc = "rejected"
        /\ loc.error \in FetchErrors
        /\ loc.inflight = 0
        /\ loc.fetches[Len(loc.fetches)] = loc.page

\* C14: a failed page fetch rejects the lookup with the collaborator's
\* failure and ends it, and the rejection of a lookup that found nothing is
\* none of the values a failed fetch can reject with.
C14_NotFoundIsDistinct ==
    /\ FetchFailurePropagates
    /\ (loc.pc = "rejected" /\ loc.cause = "notfound") =>
          loc.error \notin FetchErrors

\* C20: a lookup whose fetches all complete ends, resolved or rejected; it
\* makes at most as many fetches as the listing has pages, fetches no page
\* twice, and once it has rejected it fetches nothing more.
C20_Terminates ==
    /\ (loc.pc = "fetching") ~> LookupDone
    /\ [](/\ Len(loc.fetches) <= Len(loc.listing)
          /\ \A i, j \in 1..Len(loc.fetches) :
                loc.fetches[i] = loc.fetches[j] => i = j
          /\ LookupDone => loc.inflight = 0)
    /\ [][LookupDone => loc' = loc]_vars

\* The lookup rejected after fetching each of the three pages of a listing
\* once.
C20_Witness ==
    /\ loc.pc = "rejected"
    /\ loc.cause = "notfound"
    /\ Len(loc.listing) = 3
    /\ loc.fetches = <<0, 1, 2>>

(***************************************************************************)
(* Properties of hasPostDataChanged.                                       *)
(***************************************************************************)
\* C10: when original is absent, or its subject is undefined or null, the
\* result is false whatever the current data, and the file lists are not
\* compared.
C10_NoOriginalMeansUnchanged ==
    (/\ chg.pc = "done"
     /\ \/ chg.original = Unset
        \/ chg.original[1].subject.t \in {"undefined", "null"})
    => (chg.result = FALSE /\ ~chg.consulted)

\* The result was false for an original without subject although message,
\* privacy flag and files all differ from the current data.
C10_Witness ==
    /\ chg.pc = "done"
    /\ chg.original # Unset
    /\ chg.original[1].subject = JsUndefined
    /\ chg.post.subject = JsString("a")
    /\ chg.post.message # chg.original[1].message
    /\ chg.post.isprivatereply = JsBoolean(TRUE)
    /\ chg.original[1].isprivatereply = JsBoolean(FALSE)
    /\ chg.post.files = Some(<<LocalFile(1)>>)
    /\ chg.original[1].files = Unset
    /\ chg.result = FALSE

\* The files of an optional file list, as a set (an absent list has none).
FileSet(files) ==
    IF files = Unset THEN {} ELSE {files[1][i] : i \in 1..Len(files[1])}

\* The fields among subject, message, isprivatereply and files on which the
\* current data and the original differ.
DifferingFields(post, o) ==
    {f \in {"subject", "message", "isprivatereply"} : post[f] # o[f]}
    \cup (IF FileSet(post.files) # FileSet(o.files) THEN {"files"} ELSE {})

\* C11: for an original with a non-null subject the result is true when
\* exactly one of subject, message, isprivatereply and the file list differs,
\* false when none does, and the file lists are compared, their difference
\* being the result, only when subject, message and isprivatereply are equal.
C11_EachFieldDetected ==
    (/\ chg.pc = "done"
     /\ chg.original # Unset
     /\ chg.original[1].subject.t \notin {"undefined", "null"})
    => LET diff == DifferingFields(chg.post, chg.original[1])
       IN /\ Cardinality(diff) = 1 => chg.result = TRUE
          /\ diff = {} => chg.result = FALSE
          /\ chg.consulted =>
                /\ diff \subseteq {"files"}
                /\ chg.result = ("files" \in diff)

\* Only the file lists differ, and the result is true.
C11_Witness ==
    /\ chg.pc = "done"
    /\ chg.original # Unset
    /\ chg.original[1].subject = JsString("a")
    /\ DifferingFields(chg.post, chg.original[1]) = {"files"}
    /\ chg.post.files = Some(<<LocalFile(2), LocalFile(1)>>)
    /\ chg.original[1].files = Some(<<LocalFile(1)>>)
    /\ chg.consulted
    /\ chg.result = TRUE

(***************************************************************************)
(* Properties of getAvailabilityMessage.                                   *)
(***************************************************************************)
\* The four-rule precedence at one instant ms (in milliseconds), as the key
\* of the message it selects.
Precedence(forum, ms) ==
    IF forum.cutoffdate > 0 /\ forum.cutoffdate * 1000 < ms
    THEN "addon.mod_forum.cutoffdatereached"
    ELSE IF forum.duedate > 0 /\ forum.duedate * 1000 < ms
    THEN "addon.mod_forum.thisforumisdue"
    ELSE IF forum.duedate > 0
    THEN "addon.mod_forum.thisforumhasduedate"
    ELSE "null"

\* The times the call read: the reading of the cut-off test and, when the
\* due-date test ran, its reading.
Readings == {avail.read1, avail.read2} \ {NoRead}

\* C12: the message is the one the precedence selects at the current time
\* now, a time the call read: cut-off reached, else due date reached, else
\* due date set, else null, a date equal to now being not reached; the
\* cut-off message has no parameter.
C12_StrictPrecedenceAtNow ==
    avail.pc = "done" =>
        /\ \E now \in Readings :
              avail.message.key = Precedence(avail.forum, now)
        /\ avail.message.key = "addon.mod_forum.cutoffdatereached" =>
              avail.message.a = Unset
        /\ avail.message.key = "null" => avail.message = NullMessage

\* What holds of every call whose two tests read the same time: the message
\* is the one the precedence selects at that time.
PrecedenceAtOneReading ==
    (avail.pc = "done" /\ avail.read2 \in {NoRead, avail.read1}) =>
        /\ avail.message.key = Precedence(avail.forum, avail.read1)
        /\ avail.message.key = "addon.mod_forum.cutoffdatereached" =>
              avail.message.a = Unset

\* The four calls of C15: both tests read the clock at 150 s.
AtNow150 ==
    /\ avail.pc = "done"
    /\ avail.read1 = 150000
    /\ avail.read2 \in {NoRead, 150000}

\* C15 as stated: at now = 150 a forum with due date 200 and no cut-off
\* gets the due-future message with parameter "200", one with due date 100
\* the due-reached message, one with cut-off 100 and due date 200 the
\* cut-off message, one with neither date null.
C15_ParameterIsDueDate ==
    AtNow150 =>
        /\ avail.forum = [cutoffdate |-> 0, duedate |-> 200] =>
              avail.message = [key |-> "addon.mod_forum.thisforumhasduedate",
                               a |-> Some(<<2, 0, 0>>)]
        /\ avail.forum = [cutoffdate |-> 0, duedate |-> 100] =>
              avail.message.key = "addon.mod_forum.thisforumisdue"
        /\ avail.forum = [cutoffdate |-> 100, duedate |-> 200] =>
              avail.message.key = "addon.mod_forum.cutoffdatereached"
        /\ avail.forum = [cutoffdate |-> 0, duedate |-> 0] =>
              avail.message = NullMessage

\* C15 amended: the formatter is handed the due date in milliseconds, so the
\* parameter of the two due-date messages is "200000" for due date 200 and
\* "100000" for due date 100; the four calls at now = 150 select the
\* messages C15 names.
C15_ParameterIsDueDateInMillis ==
    /\ AtNow150 =>
          /\ avail.forum = [cutoffdate |-> 0, duedate |-> 200] =>
                avail.message = [key |-> "addon.mod_forum.thisforumhasduedate",
                                 a |-> Some(<<2, 0, 0, 0, 0, 0>>)]
          /\ avail.forum = [cutoffdate |-> 0, duedate |-> 100] =>
                avail.message = [key |-> "addon.mod_forum.thisforumisdue",
                                 a |-> Some(<<1, 0, 0, 0, 0, 0>>)]
          /\ avail.forum = [cutoffdate |-> 100, duedate |-> 200] =>
                avail.message = [key |-> "addon.mod_forum.cutoffdatereached",
                                 a |-> Unset]
          /\ avail.forum = [cutoffdate |-> 0, duedate |-> 0] =>
                avail.message = NullMessage
    /\ (/\ avail.pc = "done"
        /\ avail.message.key \in {"addon.mod_forum.thisforumisdue",
                                   "addon.mod_forum.thisforumhasduedate"})
       => avail.message.a =
             Some(IF avail.forum.duedate = 200
                  THEN <<2, 0, 0, 0, 0, 0>> ELSE <<1, 0, 0, 0, 0, 0>>)

\* The due-future message of the forum with due date 200 at now = 150.
C15_Witness ==
    /\ AtNow150
    /\ avail.forum = [cutoffdate |-> 0, duedate |-> 200]
    /\ avail.message.key = "addon.mod_forum.thisforumhasduedate"
    /\ avail.message.a = Some(<<2, 0, 0, 0, 0, 0>>)

\* C19: the message is the one the precedence selects at some one instant
\* between the call and the return, and it is never the due-reached message
\* when the cut-off date is reached at the time the due date is tested.
C19_ConsistentWithOneInstant ==
    avail.pc = "done" =>
        /\ \E s \in ClockValues :
              /\ avail.called <= s /\ s <= avail.returned
              /\ avail.message.key = Precedence(avail.forum, s)
        /\ ~(/\ avail.message.key = "addon.mod_forum.thisforumisdue"
             /\ avail.forum.cutoffdate > 0
             /\ avail.forum.cutoffdate * 1000 < avail.read2)

====
